---------------------------- MODULE Spec2Model ----------------------------
(***************************************************************************)
(* State-machine model of the RF outdoor link planner (src/app.js).        *)
(*                                                                         *)
(* Planner state is the global linkPlanner object; the DOM pieces the code *)
(* writes (marker border colours, polyline class names, the SVG overlay    *)
(* and its ellipse) are state too.  Every event handler of app.js is one   *)
(* action; the browser runs handlers to completion, one at a time.         *)
(*                                                                         *)
(* Numbers.  JavaScript numbers are modelled exactly, without rounding:    *)
(*   Num  = [k, n, d, e]: k = "fin" is the rational (n/d) * 10^e in a      *)
(*          normal form (so equal values are equal records), k = "nan",    *)
(*          "inf", "ninf" are NaN, Infinity, -Infinity;                    *)
(*   Root = [sqrtOf |-> x], the non-negative square root of the Num x      *)
(*          (Math.sqrt of a rational is not rational in general).          *)
(* Tower coordinates lie on an integer grid and pixel coordinates are      *)
(* integers, as Leaflet rounds projected points.                           *)
(***************************************************************************)
EXTENDS Integers, Sequences, FiniteSets, TLC

(***************************************************************************)
(* Bounds of the model.                                                    *)
(***************************************************************************)
MaxTowers == 2
MaxLinks == 2
MaxZoom == 1

(***************************************************************************)
(* JavaScript null (an id is a pair <<prefix, number>>, so the empty       *)
(* tuple is distinct from every id).                                       *)
(***************************************************************************)
Null == <<>>

(***************************************************************************)
(* Exact arithmetic on JavaScript numbers.                                 *)
(***************************************************************************)
Abs(i) == IF i < 0 THEN -i ELSE i

RECURSIVE GCD(_, _)
GCD(a, b) == IF b = 0 THEN a ELSE GCD(b, a % b)

NaN == [k |-> "nan", n |-> 0, d |-> 1, e |-> 0]
Infinity == [k |-> "inf", n |-> 0, d |-> 1, e |-> 0]
NegInfinity == [k |-> "ninf", n |-> 0, d |-> 1, e |-> 0]

\* (n/d) * 10^e brought to the normal form: n/d in lowest terms, d coprime
\* to 10, n not a multiple of 10, and zero written 0/1 * 10^0.
RECURSIVE Norm(_, _, _)
Norm(n, d, e) ==
    IF n = 0 THEN [k |-> "fin", n |-> 0, d |-> 1, e |-> 0]
    ELSE IF GCD(Abs(n), d) > 1
         THEN Norm(n \div GCD(Abs(n), d), d \div GCD(Abs(n), d), e)
    ELSE IF d % 2 = 0 THEN Norm(n * 5, d \div 2, e - 1)
    ELSE IF d % 5 = 0 THEN Norm(n * 2, d \div 5, e - 1)
    ELSE IF n % 10 = 0 THEN Norm(n \div 10, d, e + 1)
    ELSE [k |-> "fin", n |-> n, d |-> d, e |-> e]

\* The literal m e x of the source (3e8, 1e9) and the integer i.
Dec(m, x) == Norm(m, 1, x)
Int2Num(i) == Norm(i, 1, 0)
Zero == Int2Num(0)

IsNaN(x) == x.k = "nan"
IsFinite(x) == x.k = "fin"
\* x > 0 and x <= 0 of JavaScript: both are false of NaN.
GT0(x) == x.k = "inf" \/ (x.k = "fin" /\ x.n > 0)
LE0(x) == x.k = "ninf" \/ (x.k = "fin" /\ x.n <= 0)
IsZero(x) == x.k = "fin" /\ x.n = 0
\* a === b on numbers: NaN equals nothing.
StrictEq(a, b) == ~IsNaN(a) /\ ~IsNaN(b) /\ a = b

Sign(x) == IF x.k = "inf" THEN 1 ELSE IF x.k = "ninf" THEN -1
           ELSE IF x.n > 0 THEN 1 ELSE IF x.n < 0 THEN -1 ELSE 0
SignedInf(s) == IF s > 0 THEN Infinity ELSE NegInfinity

\* a * b of JavaScript.
Mul(a, b) ==
    IF IsNaN(a) \/ IsNaN(b) THEN NaN
    ELSE IF ~IsFinite(a) \/ ~IsFinite(b)
         THEN IF Sign(a) * Sign(b) = 0 THEN NaN ELSE SignedInf(Sign(a) * Sign(b))
    ELSE Norm(a.n * b.n, a.d * b.d, a.e + b.e)

\* a / b of JavaScript: 0/0 and Infinity/Infinity are NaN, x/0 is an
\* infinity for x # 0, x/Infinity is 0.  (The sign of a zero divisor is
\* taken as positive: every divisor of the program is >= 0.)
Div(a, b) ==
    IF IsNaN(a) \/ IsNaN(b) THEN NaN
    ELSE IF ~IsFinite(a)
         THEN IF ~IsFinite(b) THEN NaN
              ELSE SignedInf(Sign(a) * (IF Sign(b) < 0 THEN -1 ELSE 1))
    ELSE IF ~IsFinite(b) THEN Zero
    ELSE IF b.n = 0
         THEN IF a.n = 0 THEN NaN ELSE SignedInf(Sign(a))
    ELSE Norm(a.n * b.d * (IF b.n < 0 THEN -1 ELSE 1),
              a.d * Abs(b.n), a.e - b.e)

\* Math.sqrt: NaN of a negative number or NaN, else the exact root.
MathSqrt(x) == IF IsNaN(x) \/ Sign(x) < 0 THEN [sqrtOf |-> NaN]
               ELSE [sqrtOf |-> x]
\* r / m for a root r and a number m >= 0: sqrt(x) / m = sqrt(x / m^2).
RootDiv(r, m) == [sqrtOf |-> Div(r.sqrtOf, Mul(m, m))]
RootIsNaN(r) == IsNaN(r.sqrtOf)
RootIsFinite(r) == IsFinite(r.sqrtOf)
RootIsZero(r) == IsZero(r.sqrtOf)

\* Math.round(n/d) for d > 0: the nearest integer, halves towards +Infinity.
MathRound(n, d) == (2 * n + d) \div (2 * d)

\* Math.sqrt of an integer that is a perfect square, as the squared
\* distances between points of the grid are.
ISqrt(n) == CHOOSE r \in 0..n : r * r = n


(***************************************************************************)
(* parseFloat on a string, given as its sequence of characters: leading    *)
(* blanks, an optional sign, then "Infinity" or digits with an optional    *)
(* fraction; whatever follows is ignored, and NaN when no number starts    *)
(* the string.  (Exponents are not modelled: no input below has one.)      *)
(***************************************************************************)
DigitChars == <<"0", "1", "2", "3", "4", "5", "6", "7", "8", "9">>
IsDigit(c) == \E i \in 1..Len(DigitChars) : DigitChars[i] = c
DigitValue(c) == (CHOOSE i \in 1..Len(DigitChars) : DigitChars[i] = c) - 1
InfinityChars == <<"I", "n", "f", "i", "n", "i", "t", "y">>

RECURSIVE TrimLeft(_)
TrimLeft(s) == IF s # <<>> /\ Head(s) = " " THEN TrimLeft(Tail(s)) ELSE s

RECURSIVE DigitPrefix(_)
DigitPrefix(s) == IF s # <<>> /\ IsDigit(Head(s))
                  THEN <<Head(s)>> \o DigitPrefix(Tail(s)) ELSE <<>>

RECURSIVE NatOf(_)
NatOf(ds) == IF ds = <<>> THEN 0
             ELSE 10 * NatOf(SubSeq(ds, 1, Len(ds) - 1)) + DigitValue(ds[Len(ds)])

StartsWith(s, p) == Len(s) >= Len(p) /\ SubSeq(s, 1, Len(p)) = p

parseFloat(str) ==
    LET t == TrimLeft(str)
        signed == t # <<>> /\ Head(t) \in {"+", "-"}
        neg == t # <<>> /\ Head(t) = "-"
        u == IF signed THEN Tail(t) ELSE t
        ip == DigitPrefix(u)
        rest == SubSeq(u, Len(ip) + 1, Len(u))
        fp == IF rest # <<>> /\ Head(rest) = "." THEN DigitPrefix(Tail(rest)) ELSE <<>>
    IN  IF StartsWith(u, InfinityChars)
        THEN IF neg THEN NegInfinity ELSE Infinity
        ELSE IF Len(ip) + Len(fp) = 0 THEN NaN
        ELSE Norm((IF neg THEN -1 ELSE 1) * NatOf(ip \o fp), 1, -Len(fp))

(***************************************************************************)
(* What the user can give the model's events.                              *)
(***************************************************************************)
\* prompt(): cancelled (null) or the text typed.
Cancel == [cancelled |-> TRUE, text |-> <<>>]
Typed(s) == [cancelled |-> FALSE, text |-> s]
PromptInputs ==
    { Cancel,
      Typed(<<"a", "b", "c">>),
      Typed(<<"0">>),
      Typed(<<"-", "5">>),
      Typed(<<"2", ".", "4">>),
      Typed(<<" ", "5", ".", "8", "0", "G", "H", "z">>),
      Typed(InfinityChars) }

\* Places a map click can land on, as [lat, lng] on the grid.  The two are
\* a whole number of grid units apart (5), and a click can land where a
\* tower already stands.
ClickLatLngs == { <<0, 0>>, <<4, 3>> }

\* Pixel origins the map can have; the first is the one it starts with.
InitialPixelOrigin == <<0, 0>>
PixelOrigins == { InitialPixelOrigin, <<-2, 1>> }

(***************************************************************************)
(* The program's state.                                                    *)
(***************************************************************************)
VARIABLES
    towers,           \* linkPlanner.towers: [id, latlng, frequencyGHz, borderColor]
    links,            \* linkPlanner.links: [id, towerAId, towerBId, className]
    activeLinkPhase,  \* linkPlanner.activeLinkPhase: a tower id or Null
    selectedLink,     \* linkPlanner.selectedLink: the selected link's id or Null
    nextId,           \* linkPlanner.nextId
    zoom,             \* the map's zoom level
    pixelOrigin,      \* the map's pixel origin
    svgOverlays,      \* the DOM elements with id 'fresnel-svg-overlay'
    ellipses,         \* the DOM elements with id 'fresnel-ellipse'
    renderedLink,     \* history: the link the last completed render drew
    lastEvent         \* history: the handler that ran last and its branch

planner == <<towers, links, activeLinkPhase, selectedLink, nextId>>
viewport == <<zoom, pixelOrigin>>
dom == <<svgOverlays, ellipses>>
vars == <<towers, links, activeLinkPhase, selectedLink, nextId, zoom,
          pixelOrigin, svgOverlays, ellipses, renderedLink, lastEvent>>

SPEED_OF_LIGHT == Dec(3, 8)

TowerId(n) == <<"T", n>>
LinkId(n) == <<"L", n>>

\* Array.prototype.find by id, as the index of the first match (0: undefined).
FindTower(id) ==
    IF \E i \in 1..Len(towers) : towers[i].id = id
    THEN CHOOSE i \in 1..Len(towers) :
            /\ towers[i].id = id
            /\ \A j \in 1..(i - 1) : towers[j].id # id
    ELSE 0

FindLink(id) ==
    IF \E i \in 1..Len(links) : links[i].id = id
    THEN CHOOSE i \in 1..Len(links) :
            /\ links[i].id = id
            /\ \A j \in 1..(i - 1) : links[j].id # id
    ELSE 0

Init ==
    /\ towers = <<>>
    /\ links = <<>>
    /\ activeLinkPhase = Null
    /\ selectedLink = Null
    /\ nextId = 1
    /\ zoom = 0
    /\ pixelOrigin = InitialPixelOrigin
    /\ svgOverlays = <<>>
    /\ ellipses = <<>>
    /\ renderedLink = Null
    /\ lastEvent = "init"

(***************************************************************************)
(* The map service (Leaflet), as far as drawFresnelZone uses it.  A point  *)
(* on the map is [lat, lng] with rational coordinates <<num, den>>.        *)
(***************************************************************************)
\* Metres per grid unit of latitude/longitude, pixels per grid unit at zoom 0.
UnitMeters == 100
UnitPixels == 1

\* L.latLng(array).
LatLng(arr) == [lat |-> <<arr[1], 1>>, lng |-> <<arr[2], 1>>]

\* latlngA.distanceTo(latlngB), in metres, for two points of the grid.
distanceTo(a, b) ==
    LET dLat == b.lat[1] - a.lat[1]
        dLng == b.lng[1] - a.lng[1]
    IN  Int2Num(UnitMeters * ISqrt(dLat * dLat + dLng * dLng))

RECURSIVE Pow2(_)
Pow2(z) == IF z = 0 THEN 1 ELSE 2 * Pow2(z - 1)

\* The map object as the handlers find it: its zoom and pixel origin.
Map == [zoom |-> zoom, pixelOrigin |-> pixelOrigin]

\* map.getPixelOrigin().
getPixelOrigin(map) == map.pixelOrigin

\* map.latLngToLayerPoint(latlng): the point projected at the current zoom
\* (x grows east, y grows south), rounded, relative to the pixel origin.
latLngToLayerPoint(map, ll) ==
    LET scale == UnitPixels * Pow2(map.zoom)
    IN  [x |-> MathRound(scale * ll.lng[1], ll.lng[2]) - getPixelOrigin(map)[1],
         y |-> MathRound(-(scale * ll.lat[1]), ll.lat[2]) - getPixelOrigin(map)[2]]

\* pA.distanceTo(pB) on pixel points.
pointDistanceTo(p, q) ==
    Int2Num(ISqrt((q.x - p.x) * (q.x - p.x) + (q.y - p.y) * (q.y - p.y)))

(***************************************************************************)
(* calculateMaxFresnelRadius                                               *)
(***************************************************************************)
calculateMaxFresnelRadius(frequencyHz, distanceMeters) ==
    IF LE0(frequencyHz) \/ LE0(distanceMeters) THEN MathSqrt(Zero)
    ELSE LET wavelength == Div(SPEED_OF_LIGHT, frequencyHz)
             rSquared == Div(Mul(wavelength, distanceMeters), Int2Num(4))
         IN  MathSqrt(rSquared)

(***************************************************************************)
(* drawFresnelZone(link): the values it computes, then the DOM it writes.  *)
(***************************************************************************)
\* Lines 199-210: the link's towers, distance and Fresnel radius.
LinkTowerA(link) == towers[FindTower(link.towerAId)]
LinkTowerB(link) == towers[FindTower(link.towerBId)]
TowersFound(link) == FindTower(link.towerAId) # 0 /\ FindTower(link.towerBId) # 0
DistanceMeters(link) ==
    distanceTo(LatLng(LinkTowerA(link).latlng), LatLng(LinkTowerB(link).latlng))
FrequencyHz(link) == Mul(LinkTowerA(link).frequencyGHz, Dec(1, 9))
MaxFresnelRadiusMeters(link) ==
    calculateMaxFresnelRadius(FrequencyHz(link), DistanceMeters(link))

\* Lines 213-216: the arithmetic mean of the two positions.
CenterLatlng(link) ==
    LET a == LatLng(LinkTowerA(link).latlng)
        b == LatLng(LinkTowerB(link).latlng)
    IN  [lat |-> <<a.lat[1] + b.lat[1], 2>>, lng |-> <<a.lng[1] + b.lng[1], 2>>]

\* Lines 219-227: the bearing is atan2(y, x) in degrees, normalised to
\* [0, 360).  It is kept as the pair <<y, x>> of atan2's arguments, taken
\* on the flat grid (y: how far east, x: how far north B is from A); it is a
\* finite number for every pair, 0 for <<0, 0>>.
BearingDeg(link) ==
    <<LinkTowerB(link).latlng[2] - LinkTowerA(link).latlng[2],
      LinkTowerB(link).latlng[1] - LinkTowerA(link).latlng[1]>>

\* Mutant of EllipseCenter: the pixel origin is not subtracted.
EllipseCenterNoOrigin(map, link) ==
    LET centerPoint == latLngToLayerPoint(map, CenterLatlng(link))
    IN  [cx |-> centerPoint.x, cy |-> centerPoint.y]

\* Lines 247-257: the centre, anchored to the overlay's own (0, 0).
EllipseCenter(map, link) ==
    LET centerPoint == latLngToLayerPoint(map, CenterLatlng(link))
        mapPaneOffset == getPixelOrigin(map)
    IN  [cx |-> centerPoint.x - mapPaneOffset[1],
         cy |-> centerPoint.y - mapPaneOffset[2]]

\* Lines 248-249, 260-264: the link's length in pixels and the radius in pixels.
LengthPixels(map, link) ==
    pointDistanceTo(latLngToLayerPoint(map, LatLng(LinkTowerA(link).latlng)),
                    latLngToLayerPoint(map, LatLng(LinkTowerB(link).latlng)))
MetersPerPixel(map, link) == Div(DistanceMeters(link), LengthPixels(map, link))
\* Mutant of RMaxPixels: the scale of zoom 0 is assumed at every zoom.
RMaxPixelsFixedScale(map, link) ==
    RootDiv(MaxFresnelRadiusMeters(link), Div(Int2Num(UnitMeters), Int2Num(UnitPixels)))
RMaxPixels(map, link) ==
    RootDiv(MaxFresnelRadiusMeters(link), MetersPerPixel(map, link))

\* Lines 267-275: the attributes written to the ellipse.  setAttribute
\* stores String(value); the value itself is kept here (String is one to
\* one on numbers, and String(NaN) is "NaN").
EllipseAttributes(map, link) ==
    [cx |-> EllipseCenter(map, link).cx,
     cy |-> EllipseCenter(map, link).cy,
     rx |-> Div(LengthPixels(map, link), Int2Num(2)),
     ry |-> RMaxPixels(map, link),
     transform |-> [rotate |-> BearingDeg(link),
                    cx |-> EllipseCenter(map, link).cx,
                    cy |-> EllipseCenter(map, link).cy]]

\* Lines 230-237: getElementById finds the overlay or one is created.
OverlaysAfterLookup(overlays) ==
    IF overlays = <<>> THEN <<[display |-> ""]>> ELSE overlays
\* Mutant of EllipsesAfterLookup: an ellipse is created on every render.
EllipsesAlwaysCreated(els) == Append(els, [created |-> TRUE])

\* Lines 239-244: getElementById finds the ellipse or one is created.
EllipsesAfterLookup(els) ==
    IF els = <<>> THEN <<[created |-> TRUE]>> ELSE els

\* The whole function, as the DOM (and the history variable) after it;
\* map is the map object as it is when the function runs.
\* getElementById returns the first element with the id.
DrawFresnelZone(map, link) ==
    IF ~TowersFound(link)
    THEN UNCHANGED <<svgOverlays, ellipses, renderedLink>>
    ELSE /\ svgOverlays' =
              [OverlaysAfterLookup(svgOverlays) EXCEPT ![1] = [display |-> "block"]]
         /\ ellipses' =
              [EllipsesAfterLookup(ellipses) EXCEPT ![1] = EllipseAttributes(map, link)]
         /\ renderedLink' = link.id

(***************************************************************************)
(* addTower(latlng)                                                        *)
(***************************************************************************)
\* The default of line 76, 5.8 (GHz).
DefaultFreq == Norm(58, 10, 0)

\* The marker's border colour before the code sets one (the stylesheet's).
StylesheetBorder == "stylesheet"

NewTower(latlng) ==
    [id |-> TowerId(nextId), latlng |-> latlng, frequencyGHz |-> DefaultFreq,
     borderColor |-> StylesheetBorder]

\* Mutant of addTower: the id counter is read but not advanced.
addTowerSameId(latlng) ==
    /\ nextId' = nextId
    /\ towers' = Append(towers, NewTower(latlng))

addTower(latlng) ==
    /\ nextId' = nextId + 1
    /\ towers' = Append(towers, NewTower(latlng))

(***************************************************************************)
(* map.on('click')                                                         *)
(***************************************************************************)
\* Mutant of SetBorder: the highlight is set but never taken back.
SetBorderNoReset(ts, i, colour) ==
    IF i = 0 \/ colour = "white" THEN ts ELSE [ts EXCEPT ![i].borderColor = colour]

SetBorder(ts, i, colour) ==
    IF i = 0 THEN ts ELSE [ts EXCEPT ![i].borderColor = colour]

\* Mutant of MapClick: a click on the empty map leaves the phase pending.
MapClickKeepsPhase(latlng) ==
    /\ IF activeLinkPhase = Null
       THEN /\ Len(towers) < MaxTowers
            /\ addTower(latlng)
            /\ lastEvent' = "mapClickAdd"
       ELSE /\ lastEvent' = "mapClickCancel"
            /\ UNCHANGED <<towers, nextId>>
    /\ UNCHANGED <<activeLinkPhase, links, selectedLink, viewport, dom, renderedLink>>

\* Mutant of MapClick: a tower is added whether or not a phase is pending.
MapClickAlwaysAdds(latlng) ==
    /\ Len(towers) < MaxTowers
    /\ nextId' = nextId + 1
    /\ towers' = Append(SetBorder(towers, FindTower(activeLinkPhase), "white"),
                        NewTower(latlng))
    /\ activeLinkPhase' = Null
    /\ lastEvent' = IF activeLinkPhase = Null THEN "mapClickAdd" ELSE "mapClickCancel"
    /\ UNCHANGED <<links, selectedLink, viewport, dom, renderedLink>>

\* Mutant of MapClick: a click on the empty map also drops the selection.
MapClickClearsSelection(latlng) ==
    /\ IF activeLinkPhase = Null
       THEN /\ Len(towers) < MaxTowers
            /\ addTower(latlng)
            /\ lastEvent' = "mapClickAdd"
            /\ UNCHANGED activeLinkPhase
       ELSE /\ towers' = SetBorder(towers, FindTower(activeLinkPhase), "white")
            /\ activeLinkPhase' = Null
            /\ lastEvent' = "mapClickCancel"
            /\ UNCHANGED nextId
    /\ selectedLink' = Null
    /\ UNCHANGED <<links, viewport, dom, renderedLink>>

MapClick(latlng) ==
    /\ IF activeLinkPhase = Null
       THEN /\ Len(towers) < MaxTowers
            /\ addTower(latlng)
            /\ lastEvent' = "mapClickAdd"
            /\ UNCHANGED activeLinkPhase
       ELSE /\ towers' = SetBorder(towers, FindTower(activeLinkPhase), "white")
            /\ activeLinkPhase' = Null
            /\ lastEvent' = "mapClickCancel"
            /\ UNCHANGED nextId
    /\ UNCHANGED <<links, selectedLink, viewport, dom, renderedLink>>

(***************************************************************************)
(* handleTowerClick(tower); i is the tower's place in linkPlanner.towers.  *)
(***************************************************************************)
\* Line 107: parseFloat(newFreq), for each answer the prompt can give.
ParsedPrompt == [input \in PromptInputs |-> parseFloat(input.text)]

\* Mutant of EditedFrequency: any number is taken, positive or not.
EditedFrequencyAnyNumber(current, input) ==
    IF input.cancelled THEN current
    ELSE LET freq == ParsedPrompt[input]
         IN  IF ~IsNaN(freq) THEN freq ELSE current

\* Lines 105-114: the tower's frequency after the prompt.
EditedFrequency(current, input) ==
    IF input.cancelled THEN current
    ELSE LET freq == ParsedPrompt[input]
         IN  IF ~IsNaN(freq) /\ GT0(freq) THEN freq ELSE current

\* Mutant of FrequenciesMatch: the check left out.
FrequenciesMatchUnchecked(towerA, towerB) == TRUE

\* Line 131: the frequency check of a second-tower click.
FrequenciesMatch(towerA, towerB) ==
    StrictEq(towerA.frequencyGHz, towerB.frequencyGHz)

\* Mutant of NewLink: the first tower's id is stored for both ends.
NewLinkSameTower(towerA, towerB) ==
    [id |-> LinkId(nextId), towerAId |-> towerA.id, towerBId |-> towerA.id,
     className |-> "leaflet-link-line"]

\* createLink(towerA, towerB): the link pushed.
NewLink(towerA, towerB) ==
    [id |-> LinkId(nextId), towerAId |-> towerA.id, towerBId |-> towerB.id,
     className |-> "leaflet-link-line"]

\* Mutant of HandleTowerClick: the frequencies are compared as they were
\* before the click's edit.
HandleTowerClickCheckFirst(i, input) ==
    LET edited == [towers EXCEPT ![i].frequencyGHz =
                        EditedFrequency(towers[i].frequencyGHz, input)]
        tower == edited[i]
        a == FindTower(activeLinkPhase)
    IN  /\ IF activeLinkPhase = Null
           THEN /\ activeLinkPhase' = tower.id
                /\ towers' = SetBorder(edited, i, "yellow")
                /\ lastEvent' = "towerStart"
                /\ UNCHANGED <<links, nextId>>
           ELSE IF activeLinkPhase = tower.id
           THEN /\ activeLinkPhase' = Null
                /\ towers' = SetBorder(edited, i, "white")
                /\ lastEvent' = "towerCancel"
                /\ UNCHANGED <<links, nextId>>
           ELSE /\ IF FrequenciesMatch(towers[a], towers[i])
                   THEN /\ Len(links) < MaxLinks
                        /\ nextId' = nextId + 1
                        /\ links' = Append(links, NewLink(edited[a], tower))
                        /\ lastEvent' = IF tower.frequencyGHz # towers[i].frequencyGHz
                                        THEN "linkCreatedAfterEdit" ELSE "linkCreated"
                   ELSE /\ lastEvent' = IF tower.frequencyGHz # towers[i].frequencyGHz
                                        THEN "linkRejectedAfterEdit" ELSE "linkRejected"
                        /\ UNCHANGED <<links, nextId>>
                /\ towers' = SetBorder(edited, a, "white")
                /\ activeLinkPhase' = Null
        /\ UNCHANGED <<selectedLink, viewport, dom, renderedLink>>

HandleTowerClick(i, input) ==
    LET edited == [towers EXCEPT ![i].frequencyGHz =
                        EditedFrequency(towers[i].frequencyGHz, input)]
        tower == edited[i]
        a == FindTower(activeLinkPhase)
    IN  /\ IF activeLinkPhase = Null
           THEN /\ activeLinkPhase' = tower.id
                /\ towers' = SetBorder(edited, i, "yellow")
                /\ lastEvent' = "towerStart"
                /\ UNCHANGED <<links, nextId>>
           ELSE IF activeLinkPhase = tower.id
           THEN /\ activeLinkPhase' = Null
                /\ towers' = SetBorder(edited, i, "white")
                /\ lastEvent' = "towerCancel"
                /\ UNCHANGED <<links, nextId>>
           ELSE /\ IF FrequenciesMatch(edited[a], tower)
                   THEN /\ Len(links) < MaxLinks
                        /\ nextId' = nextId + 1
                        /\ links' = Append(links, NewLink(edited[a], tower))
                        /\ lastEvent' = IF tower.frequencyGHz # towers[i].frequencyGHz
                                        THEN "linkCreatedAfterEdit" ELSE "linkCreated"
                   ELSE /\ lastEvent' = IF tower.frequencyGHz # towers[i].frequencyGHz
                                        THEN "linkRejectedAfterEdit" ELSE "linkRejected"
                        /\ UNCHANGED <<links, nextId>>
                /\ towers' = SetBorder(edited, a, "white")
                /\ activeLinkPhase' = Null
        /\ UNCHANGED <<selectedLink, viewport, dom, renderedLink>>

(***************************************************************************)
(* handleLinkClick(link, event); j is the link's place in                  *)
(* linkPlanner.links.                                                      *)
(***************************************************************************)
\* Mutant of DeselectPrevious: the previous link keeps its highlight.
DeselectPreviousSkipped(ls) == ls

\* Lines 179-181: the previously selected link's line back to the normal style.
DeselectPrevious(ls) ==
    IF selectedLink # Null
    THEN [ls EXCEPT ![FindLink(selectedLink)].className = "leaflet-link-line"]
    ELSE ls

\* Mutant of HandleLinkClick: the zone is drawn for the first selection only.
HandleLinkClickDrawOnce(j) ==
    /\ selectedLink' = links[j].id
    /\ links' = [DeselectPrevious(links) EXCEPT
                    ![j].className = "leaflet-link-line-selected"]
    /\ IF selectedLink = Null
       THEN DrawFresnelZone(Map, links[j])
       ELSE UNCHANGED <<dom, renderedLink>>
    /\ lastEvent' = IF selectedLink = Null THEN "linkClickFirst"
                    ELSE IF selectedLink = links[j].id THEN "linkClickSame"
                    ELSE "linkClickOther"
    /\ UNCHANGED <<towers, activeLinkPhase, nextId, viewport>>

\* Mutant of HandleLinkClick: a click on the selected link deselects it.
HandleLinkClickToggles(j) ==
    IF selectedLink = links[j].id
    THEN /\ selectedLink' = Null
         /\ links' = DeselectPrevious(links)
         /\ lastEvent' = "linkClickSame"
         /\ UNCHANGED <<towers, activeLinkPhase, nextId, viewport, dom, renderedLink>>
    ELSE /\ selectedLink' = links[j].id
         /\ links' = [DeselectPrevious(links) EXCEPT
                         ![j].className = "leaflet-link-line-selected"]
         /\ DrawFresnelZone(Map, links[j])
         /\ lastEvent' = IF selectedLink = Null THEN "linkClickFirst"
                         ELSE "linkClickOther"
         /\ UNCHANGED <<towers, activeLinkPhase, nextId, viewport>>

HandleLinkClick(j) ==
    /\ selectedLink' = links[j].id
    /\ links' = [DeselectPrevious(links) EXCEPT
                    ![j].className = "leaflet-link-line-selected"]
    /\ DrawFresnelZone(Map, links[j])
    /\ lastEvent' = IF selectedLink = Null THEN "linkClickFirst"
                    ELSE IF selectedLink = links[j].id THEN "linkClickSame"
                    ELSE "linkClickOther"
    /\ UNCHANGED <<towers, activeLinkPhase, nextId, viewport>>

(***************************************************************************)
(* map.on('moveend').  Leaflet sets the zoom and the pixel origin and      *)
(* fires 'moveend' in the same task, so the event comes with the viewport  *)
(* the gesture ended in: (z, origin).  A plain pan changes neither.        *)
(***************************************************************************)
\* Mutant of MoveEnd: the handler does not draw.
MoveEndNoRender(z, origin) ==
    /\ zoom' = z
    /\ pixelOrigin' = origin
    /\ lastEvent' = IF selectedLink # Null THEN "moveendRender" ELSE "moveendIdle"
    /\ UNCHANGED <<planner, dom, renderedLink>>

MoveEnd(z, origin) ==
    /\ zoom' = z
    /\ pixelOrigin' = origin
    /\ IF selectedLink # Null
       THEN /\ DrawFresnelZone([zoom |-> z, pixelOrigin |-> origin],
                               links[FindLink(selectedLink)])
            /\ lastEvent' = "moveendRender"
       ELSE /\ lastEvent' = "moveendIdle"
            /\ UNCHANGED <<dom, renderedLink>>
    /\ UNCHANGED planner

Next ==
    \/ \E latlng \in ClickLatLngs : MapClick(latlng)
    \/ \E i \in 1..Len(towers) : \E input \in PromptInputs : HandleTowerClick(i, input)
    \/ \E j \in 1..Len(links) : HandleLinkClick(j)
    \/ \E z \in 0..MaxZoom : \E origin \in PixelOrigins : MoveEnd(z, origin)

Spec == Init /\ [][Next]_vars

(***************************************************************************)
(* Properties.                                                             *)
(***************************************************************************)
\* The steps of each handler.  Every handler leaves its own labels in
\* lastEvent, so a step is one of a handler only if it leaves one of them;
\* the label is tested first, the handler's whole effect after it.
TowerClickEvents ==
    {"towerStart", "towerCancel", "linkCreated", "linkCreatedAfterEdit",
     "linkRejected", "linkRejectedAfterEdit"}
TowerClicked(i, input) ==
    lastEvent' \in TowerClickEvents /\ HandleTowerClick(i, input)
MapClicked(latlng) ==
    lastEvent' \in {"mapClickAdd", "mapClickCancel"} /\ MapClick(latlng)
LinkClicked(j) ==
    lastEvent' \in {"linkClickFirst", "linkClickSame", "linkClickOther"}
        /\ HandleLinkClick(j)
MoveEnded(z, origin) ==
    lastEvent' \in {"moveendRender", "moveendIdle"} /\ MoveEnd(z, origin)

SelectedLinkRecord == links[FindLink(selectedLink)]
RenderEvents == {"linkClickFirst", "linkClickSame", "linkClickOther", "moveendRender"}
LastLink(ls) == ls[Len(ls)]

\* C1: links grows only by one link per step, and only in a step that is a
\* click on a tower other than the pending one whose frequency, as the click
\* leaves it, equals the pending tower's; the new link joins the pending
\* tower to the clicked one.  A click on a tower other than the pending one
\* whose frequencies differ leaves links unchanged.
C1_LinkOnlyOnFrequencyMatch ==
    [][ /\ Len(links') # Len(links) =>
            /\ activeLinkPhase # Null
            /\ links' = Append(links, LastLink(links'))
            /\ LastLink(links').towerAId = activeLinkPhase
            /\ \E i \in 1..Len(towers) : \E input \in PromptInputs :
                  /\ TowerClicked(i, input)
                  /\ towers[i].id # activeLinkPhase
                  /\ LastLink(links').towerBId = towers[i].id
                  /\ StrictEq(towers'[FindTower(activeLinkPhase)].frequencyGHz,
                              towers'[i].frequencyGHz)
        /\ \A i \in 1..Len(towers) : \A input \in PromptInputs :
              ( /\ activeLinkPhase # Null
                /\ towers[i].id # activeLinkPhase
                /\ ~StrictEq(towers'[FindTower(activeLinkPhase)].frequencyGHz,
                             towers'[i].frequencyGHz)
                /\ TowerClicked(i, input) )
              => links' = links ]_vars

\* C1 witness: a second-tower click was just rejected for a frequency
\* mismatch while a link created by an earlier click exists.
C1_Witness == lastEvent = "linkRejected" /\ Len(links) >= 1

\* C2: in every state the links carrying the selected style are exactly the
\* link selectedLink names (none when it is null), and a link click makes
\* the clicked link the selected one, alone highlighted, whichever link was
\* selected before (the same one included).
C2_StyleMatchesSelection ==
    /\ selectedLink # Null => FindLink(selectedLink) # 0
    /\ \A k \in 1..Len(links) :
          (links[k].className = "leaflet-link-line-selected") <=> (links[k].id = selectedLink)
    /\ \A k \in 1..Len(links) :
          links[k].className \in {"leaflet-link-line", "leaflet-link-line-selected"}

C2_SingleSelection ==
    /\ []C2_StyleMatchesSelection
    /\ [][ \A j \in 1..Len(links) : LinkClicked(j) =>
              /\ selectedLink' = links[j].id
              /\ \A k \in 1..Len(links) :
                    (links'[k].className = "leaflet-link-line-selected") <=> (k = j) ]_vars

\* C2 witness: a link was just clicked while another link was selected.
C2_Witness ==
    /\ lastEvent = "linkClickOther"
    /\ Len(links) = 2
    /\ selectedLink = links[1].id
    /\ links[2].className = "leaflet-link-line"

\* C3: there is never more than one overlay surface nor more than one
\* ellipse, and once a render has completed there is exactly one of each.
C3_OneOverlayOneEllipse ==
    /\ Len(svgOverlays) <= 1
    /\ Len(ellipses) <= 1
    /\ renderedLink # Null => Len(svgOverlays) = 1 /\ Len(ellipses) = 1

\* C3 witness: a render ran when the shape already existed (a moveend
\* after a selection) and one ellipse exists.
C3_Witness ==
    /\ lastEvent \in {"moveendRender", "linkClickOther", "linkClickSame"}
    /\ Len(ellipses) = 1
    /\ Len(svgOverlays) = 1

\* C4: if the ellipse exists, a link is selected, the last render drew that
\* link, and the ellipse's centre, major semi-axis and rotation are those of
\* the selected link's two towers in the current viewport; while no link is
\* selected there is no ellipse and no overlay.
C4_EllipseIsOfSelectedLink ==
    /\ ellipses # <<>> =>
          /\ selectedLink # Null
          /\ renderedLink = selectedLink
          /\ ellipses[1].cx = EllipseAttributes(Map, SelectedLinkRecord).cx
          /\ ellipses[1].cy = EllipseAttributes(Map, SelectedLinkRecord).cy
          /\ ellipses[1].rx = EllipseAttributes(Map, SelectedLinkRecord).rx
          /\ ellipses[1].transform = EllipseAttributes(Map, SelectedLinkRecord).transform
    /\ selectedLink = Null => ellipses = <<>> /\ svgOverlays = <<>>

\* C4 witness: the selection just moved to a link whose towers are those of
\* the previously drawn link in the other order, and the ellipse exists.
C4_Witness ==
    /\ lastEvent = "linkClickOther"
    /\ ellipses # <<>>
    /\ Len(links) = 2
    /\ links[1].towerAId = links[2].towerBId
    /\ links[1].towerAId # links[2].towerAId

\* C5: the pending phase is null or the id of one tower; a tower click made
\* while it is null sets it to the clicked tower, a tower click made while
\* it is set (on the pending tower or on another, link created or not)
\* clears it, a map click made while it is set clears it, and it becomes
\* set in no step but a tower click.
C5_PhaseTransitions ==
    /\ [](activeLinkPhase # Null => FindTower(activeLinkPhase) # 0)
    /\ [][ /\ \A i \in 1..Len(towers) :
                \/ IF activeLinkPhase = Null
                   THEN activeLinkPhase' = towers[i].id
                   ELSE activeLinkPhase' = Null
                \/ \A input \in PromptInputs : ~TowerClicked(i, input)
           /\ \A latlng \in ClickLatLngs :
                (MapClicked(latlng) /\ activeLinkPhase # Null) => activeLinkPhase' = Null
           /\ (activeLinkPhase = Null /\ activeLinkPhase' # Null) =>
                \E i \in 1..Len(towers) : \E input \in PromptInputs :
                    TowerClicked(i, input) ]_vars

\* C5 witness: a click on the empty map just cancelled a pending phase.
C5_Witness == lastEvent = "mapClickCancel" /\ activeLinkPhase = Null

\* C6: while the selected link's two towers have identical coordinates
\* (distance 0, pixel length 0) and the ellipse exists, its semi-axes are
\* finite numbers (neither NaN nor an infinity) and both are 0.
SelectedLinkDegenerate ==
    /\ selectedLink # Null
    /\ IsZero(DistanceMeters(SelectedLinkRecord))
    /\ IsZero(LengthPixels(Map, SelectedLinkRecord))

C6_DegenerateRenderGuarded ==
    (SelectedLinkDegenerate /\ ellipses # <<>>) =>
        /\ IsFinite(ellipses[1].rx) /\ IsZero(ellipses[1].rx)
        /\ RootIsFinite(ellipses[1].ry) /\ RootIsZero(ellipses[1].ry)

\* C7: a moveend event leaves towers, links, the pending phase, the
\* selection and the id counter as they were; if a link is selected the
\* ellipse afterwards is the one the render computes for that link in the
\* viewport of the event, and if none is selected the DOM is untouched.
C7_MoveEndRendersOnlySelection ==
    [][ \A z \in 0..MaxZoom : \A origin \in PixelOrigins :
          MoveEnded(z, origin) =>
              /\ planner' = planner
              /\ IF selectedLink # Null
                 THEN /\ renderedLink' = selectedLink
                      /\ svgOverlays' = <<[display |-> "block"]>>
                      /\ ellipses' = <<EllipseAttributes([zoom |-> z, pixelOrigin |-> origin],
                                                         SelectedLinkRecord)>>
                 ELSE /\ dom' = dom
                      /\ renderedLink' = renderedLink ]_vars

\* C7 witness: a moveend that changed the zoom just re-rendered the
\* selected link.
C7_Witness == lastEvent = "moveendRender" /\ zoom # 0 /\ selectedLink # Null

\* C8: after every render the ellipse's centre is the layer point of the
\* midpoint of the selected link's towers minus the pixel origin, both taken
\* from the map as it is at that render.
C8_CenterIsProjectionMinusOrigin ==
    lastEvent \in RenderEvents =>
        /\ ellipses[1].cx =
              latLngToLayerPoint(Map, CenterLatlng(SelectedLinkRecord)).x
                  - getPixelOrigin(Map)[1]
        /\ ellipses[1].cy =
              latLngToLayerPoint(Map, CenterLatlng(SelectedLinkRecord)).y
                  - getPixelOrigin(Map)[2]

\* C8 witness: a moveend rendered after the pixel origin moved away from
\* the one the map started with.
C8_Witness ==
    /\ lastEvent = "moveendRender"
    /\ pixelOrigin # InitialPixelOrigin
    /\ ellipses # <<>>

\* C9: after every render of a link of distance > 0, rx is half the pixel
\* length L of the link, ry is r * L / D (r the Fresnel radius, D the
\* distance) and ry / rx = 2 r / D; a moveend changes neither D nor r, and
\* rescales rx and ry by the same factor.
RadiusSquared(link) == MaxFresnelRadiusMeters(link).sqrtOf
Square(x) == Mul(x, x)

C9_AxesAfterRender ==
    (lastEvent \in RenderEvents /\ GT0(DistanceMeters(SelectedLinkRecord))) =>
        /\ ellipses[1].rx = Div(LengthPixels(Map, SelectedLinkRecord), Int2Num(2))
        /\ ellipses[1].ry.sqrtOf =
              Div(Mul(RadiusSquared(SelectedLinkRecord),
                      Square(LengthPixels(Map, SelectedLinkRecord))),
                  Square(DistanceMeters(SelectedLinkRecord)))
        /\ Mul(ellipses[1].ry.sqrtOf, Square(DistanceMeters(SelectedLinkRecord))) =
              Mul(Mul(Int2Num(4), RadiusSquared(SelectedLinkRecord)),
                  Square(ellipses[1].rx))

\* The distance and the Fresnel radius of a link, read from the tower
\* array ts (towers before a step, towers' after it).
TowerIn(ts, id) == ts[CHOOSE i \in 1..Len(ts) : ts[i].id = id]
DistanceIn(ts, link) ==
    distanceTo(LatLng(TowerIn(ts, link.towerAId).latlng),
               LatLng(TowerIn(ts, link.towerBId).latlng))
RadiusIn(ts, link) ==
    calculateMaxFresnelRadius(Mul(TowerIn(ts, link.towerAId).frequencyGHz, Dec(1, 9)),
                              DistanceIn(ts, link))

C9_AxesScaleWithProjection ==
    /\ []C9_AxesAfterRender
    /\ [][ \A z \in 0..MaxZoom : \A origin \in PixelOrigins :
             ( /\ MoveEnded(z, origin)
               /\ selectedLink # Null
               /\ lastEvent \in RenderEvents
               /\ GT0(DistanceMeters(SelectedLinkRecord)) ) =>
                 /\ selectedLink' = selectedLink
                 /\ DistanceIn(towers', SelectedLinkRecord) =
                       DistanceMeters(SelectedLinkRecord)
                 /\ RadiusIn(towers', SelectedLinkRecord) =
                       MaxFresnelRadiusMeters(SelectedLinkRecord)
                 /\ Mul(Square(ellipses'[1].rx), ellipses[1].ry.sqrtOf) =
                       Mul(Square(ellipses[1].rx), ellipses'[1].ry.sqrtOf) ]_vars

\* C9 witness: a moveend at zoom 1 just re-rendered a link of distance > 0
\* whose Fresnel radius is not 0.
C9_Witness ==
    /\ lastEvent = "moveendRender"
    /\ zoom = 1
    /\ GT0(DistanceMeters(SelectedLinkRecord))
    /\ GT0(RadiusSquared(SelectedLinkRecord))
    /\ GT0(ellipses[1].ry.sqrtOf)

\* C10: every tower's frequency is > 0 in every state, and a tower click
\* whose prompt is cancelled, or whose text parseFloat reads as NaN or as a
\* number <= 0, leaves the clicked tower's frequency as it was (no step
\* that changes a tower's frequency is such a click on that tower).
InputRejected(input) ==
    \/ input.cancelled
    \/ IsNaN(parseFloat(input.text))
    \/ LE0(parseFloat(input.text))

C11_LinkEndsPresent ==
    \A k \in 1..Len(links) :
        /\ links[k].towerAId # links[k].towerBId
        /\ FindTower(links[k].towerAId) # 0
        /\ FindTower(links[k].towerBId) # 0

C11_LinksReferenceTowers ==
    /\ []C11_LinkEndsPresent
    /\ [][ /\ Len(towers') >= Len(towers)
           /\ \A i \in 1..Len(towers) : towers'[i].id = towers[i].id ]_vars

\* C11 witness: two links exist, created in the two orders of the same two
\* towers, and events other than their creation have run since.
C11_Witness ==
    /\ Len(links) = 2
    /\ links[1].towerAId = links[2].towerBId
    /\ lastEvent \in {"moveendRender", "towerStart", "mapClickCancel"}

(***************************************************************************)
(* drawFresnelZone on a link whose tower is missing.  The handlers never   *)
(* produce such a link (C11), so the early return of line 202 is exercised *)
(* from planner states given directly: two towers T1, T2 stand, and the    *)
(* two links of the link set name their ends among T1, T2 and T3, where no *)
(* tower T3 is in the tower set.  From there the handlers that render      *)
(* (handleLinkClick, moveend) run as in the program.                       *)
(***************************************************************************)
RenderTowerIds == {TowerId(1), TowerId(2), TowerId(3)}

RenderLinks(n) ==
    { [id |-> LinkId(n), towerAId |-> ends[1], towerBId |-> ends[2],
       className |-> "leaflet-link-line"] :
          ends \in { e \in RenderTowerIds \X RenderTowerIds : e[1] # e[2] } }

InitRender ==
    /\ \E p1 \in ClickLatLngs : \E p2 \in ClickLatLngs :
          towers = << [id |-> TowerId(1), latlng |-> p1,
                       frequencyGHz |-> DefaultFreq, borderColor |-> StylesheetBorder],
                      [id |-> TowerId(2), latlng |-> p2,
                       frequencyGHz |-> DefaultFreq, borderColor |-> StylesheetBorder] >>
    /\ \E l1 \in RenderLinks(4) : \E l2 \in RenderLinks(5) : links = <<l1, l2>>
    /\ activeLinkPhase = Null
    /\ selectedLink = Null
    /\ nextId = 6
    /\ zoom = 0
    /\ pixelOrigin = InitialPixelOrigin
    /\ svgOverlays = <<>>
    /\ ellipses = <<>>
    /\ renderedLink = Null
    /\ lastEvent = "init"

NextRender ==
    \/ \E j \in 1..Len(links) : HandleLinkClick(j)
    \/ \E z \in 0..MaxZoom : \E origin \in PixelOrigins : MoveEnd(z, origin)

SpecRender == InitRender /\ [][NextRender]_vars

EntityIds ==
    [k \in 1..(Len(towers) + Len(links)) |->
        IF k <= Len(towers) THEN towers[k].id ELSE links[k - Len(towers)].id]

C13_IdsUnique ==
    /\ \A k \in DOMAIN EntityIds : \A m \in DOMAIN EntityIds :
          k # m => EntityIds[k][2] # EntityIds[m][2]
    /\ \A k \in DOMAIN EntityIds : EntityIds[k][2] \in 1..(nextId - 1)
    /\ \A i \in 1..Len(towers) : towers[i].id[1] = "T"
    /\ \A j \in 1..Len(links) : links[j].id[1] = "L"

C13_IdsUniqueAndStable ==
    /\ []C13_IdsUnique
    /\ [][ /\ \A i \in 1..Len(towers) : towers'[i].id = towers[i].id
           /\ \A j \in 1..Len(links) : links'[j].id = links[j].id ]_vars

\* C13 witness: two towers and two links have drawn their ids from the one
\* counter, which stands at 5, and a frequency edit and a selection have
\* happened since.
C13_Witness ==
    /\ Len(towers) = 2
    /\ Len(links) = 2
    /\ nextId = 5
    /\ selectedLink # Null
    /\ \E i \in 1..Len(towers) : towers[i].frequencyGHz # DefaultFreq

\* C14: for every link, with the frequency f (Hz) and the distance D (m)
\* that drawFresnelZone passes for it, calculateMaxFresnelRadius(f, D) is 0
\* exactly when f <= 0 or D <= 0, and when both are > 0 the result is > 0
\* and its square is SPEED_OF_LIGHT * D / (4 * f).
C14_RadiusZeroIffNonPositiveInput ==
    \A k \in 1..Len(links) :
        LET f == FrequencyHz(links[k])
            D == DistanceMeters(links[k])
            r == calculateMaxFresnelRadius(f, D)
        IN  /\ RootIsZero(r) <=> (LE0(f) \/ LE0(D))
            /\ (GT0(f) /\ GT0(D)) =>
                  /\ GT0(r.sqrtOf)
                  /\ r.sqrtOf = Div(Mul(SPEED_OF_LIGHT, D), Mul(Int2Num(4), f))

\* C15: a tower click (whatever the prompt's answer and whichever branch it
\* takes) and a click on the empty map leave selectedLink, the ellipse with
\* all its attributes and the overlay exactly as they were: a step either
\* leaves the three unchanged or is neither a tower click nor a map click.
C15_ClicksKeepSelectionAndEllipse ==
    [][ \/ /\ selectedLink' = selectedLink
              /\ ellipses' = ellipses
              /\ svgOverlays' = svgOverlays
           \/ ~ ( \/ \E i \in 1..Len(towers) : \E input \in PromptInputs :
                        TowerClicked(i, input)
                  \/ \E latlng \in ClickLatLngs : MapClicked(latlng) ) ]_vars

\* C15 witness: while a link is selected and its ellipse drawn, a
\* second-tower click was just rejected after an edit changed the frequency
\* of the selected link's tower A.
C15_Witness ==
    /\ lastEvent = "linkRejected"
    /\ selectedLink # Null
    /\ ellipses # <<>>
    /\ LinkTowerA(SelectedLinkRecord).frequencyGHz # LinkTowerB(SelectedLinkRecord).frequencyGHz

\* C16: a click on the empty map made while no phase is pending appends
\* exactly one tower, placed where the click landed; one made while a phase
\* is pending leaves the number of towers and each tower's id, position and
\* frequency as they were; and the number of towers changes in no step but
\* a map click made while no phase is pending.
SameTowerSet(ts, us) ==
    /\ Len(ts) = Len(us)
    /\ \A i \in 1..Len(ts) :
          /\ ts[i].id = us[i].id
          /\ ts[i].latlng = us[i].latlng
          /\ ts[i].frequencyGHz = us[i].frequencyGHz

C16_MapClickAddsIffNoPhase ==
    [][ /\ \A latlng \in ClickLatLngs :
              MapClicked(latlng) =>
                  IF activeLinkPhase = Null
                  THEN /\ Len(towers') = Len(towers) + 1
                       /\ SubSeq(towers', 1, Len(towers)) = towers
                       /\ towers'[Len(towers')].latlng = latlng
                  ELSE SameTowerSet(towers', towers)
        /\ Len(towers') # Len(towers) =>
              /\ activeLinkPhase = Null
              /\ \E latlng \in ClickLatLngs : MapClicked(latlng) ]_vars

\* C16 witness: a map click just cancelled a pending phase and added
\* nothing, with a single tower on the map.
C16_Witness ==
    /\ lastEvent = "mapClickCancel"
    /\ Len(towers) = 1

\* C17: in every state a tower's marker has the yellow border exactly when
\* the tower's id is the pending phase: at most one tower is highlighted,
\* and none while no phase is pending.
C17_HighlightIffPending ==
    /\ \A i \in 1..Len(towers) :
          (towers[i].borderColor = "yellow") <=> (towers[i].id = activeLinkPhase)
    /\ Cardinality({ i \in 1..Len(towers) : towers[i].borderColor = "yellow" }) <= 1
    /\ activeLinkPhase = Null =>
          \A i \in 1..Len(towers) : towers[i].borderColor # "yellow"

\* C17 witness: a phase is pending on a highlighted tower while the other
\* tower, highlighted in an earlier phase, has had its highlight reset.
C17_Witness ==
    /\ activeLinkPhase # Null
    /\ \E i \in 1..Len(towers) : towers[i].borderColor = "yellow"
    /\ \E i \in 1..Len(towers) : towers[i].borderColor = "white"

\* C18: in every state (each is a state between two handlers) in which a
\* link is selected and the ellipse exists, the ellipse's minor semi-axis
\* ry is the value the render computes from the current frequency of the
\* selected link's tower A in the current viewport.
C18_MinorAxisOfCurrentFrequency ==
    (selectedLink # Null /\ ellipses # <<>>) =>
        ellipses[1].ry = RMaxPixels(Map, SelectedLinkRecord)

\* C19: in a click on a tower other than the pending one, the clicked
\* tower's frequency becomes the number typed (if the prompt's answer is
\* accepted; else it stays), the pending tower's frequency stays, and a link
\* is created exactly when the pending tower's frequency equals the clicked
\* tower's frequency as the edit leaves it; otherwise links is unchanged.
FrequencyAfterPrompt(current, input) ==
    IF InputRejected(input) THEN current ELSE parseFloat(input.text)

C19_EditBeforeLinkCheck ==
    [][ \A i \in 1..Len(towers) : \A input \in PromptInputs :
          ( /\ activeLinkPhase # Null
            /\ towers[i].id # activeLinkPhase
            /\ TowerClicked(i, input) ) =>
              LET a == FindTower(activeLinkPhase)
                  after == FrequencyAfterPrompt(towers[i].frequencyGHz, input)
              IN  /\ towers'[i].frequencyGHz = after
                  /\ towers'[a].frequencyGHz = towers[a].frequencyGHz
                  /\ StrictEq(towers[a].frequencyGHz, after) =>
                        Len(links') = Len(links) + 1
                  /\ ~StrictEq(towers[a].frequencyGHz, after) => links' = links ]_vars

\* C19 witness: a second-tower click whose edit changed the clicked tower's
\* frequency (to the pending tower's) just created a link.
C19_Witness ==
    /\ lastEvent = "linkCreatedAfterEdit"
    /\ Len(links) >= 1
    /\ LET l == links[Len(links)]
       IN  LinkTowerA(l).frequencyGHz = LinkTowerB(l).frequencyGHz

\* C20: no step takes selectedLink from a link back to null: once a link
\* has been selected, one is selected in every later state, and the
\* selected id is always that of a link of the link set.
C20_SelectionNeverCleared ==
    [][ selectedLink # Null =>
          /\ selectedLink' # Null
          /\ \E j \in 1..Len(links') : links'[j].id = selectedLink' ]_vars

\* C20 witness: with a link selected, a tower click has just cancelled a
\* pending phase, after the viewport moved away from the initial one.
C20_Witness ==
    /\ selectedLink # Null
    /\ lastEvent = "towerCancel"
    /\ zoom # 0
    /\ pixelOrigin # InitialPixelOrigin

=============================================================================
